---- MODULE Spec2Model ----
(***************************************************************************)
(* Model of src/app.py: a Flask book shop.  Two tables (User, Book), a     *)
(* cookie session per browser holding the logged-in user id and the cart,  *)
(* a before_request hook that seeds the tables, and one handler per route. *)
(* A request is a process: it runs the seeding hook query by query, then   *)
(* its handler.  Prices are kept in cents.                                 *)
(***************************************************************************)
EXTENDS Integers, Sequences, FiniteSets, TLC

VARIABLES
    users,      \* the User table, rows in insertion order
    books,      \* the Book table, rows in insertion order
    identity,   \* per session: the user id login_user stored, or Anonymous
    cart,       \* per session: session['cart'], or NoCart
    pc,         \* per session: where its request in flight stands
    req,        \* per session: the request in flight (or the last one)
    resp,       \* per session: the response of the last request
    presented,  \* history: the book the session's last checkout page showed
    dropped     \* history: how many entries the last remove_from_cart dropped

vars == <<users, books, identity, cart, pc, req, resp, presented, dropped>>

(* ------------------------------ bounds --------------------------------- *)

\* longest cart list a session builds
MaxCart == 3

\* the browser sessions; each issues one request at a time
Sessions == {1, 2}

\* form values a client sends
Usernames == {"admin", "alice", "bob"}
SignupNames == {"admin", "alice"}
Passwords == {"admin", "pw1"}
Addresses == {"addr"}
\* book ids a client puts in a URL: two seeded ones and one no Book has
ReqBookIds == {1, 2, 10}
\* salts generate_password_hash may draw
Salts == {"s1", "s2"}

(* ------------------------------ values --------------------------------- *)

\* session['cart'] absent ('cart' not in session)
NoCart == <<-1>>
\* the session holds no user id (anonymous)
Anonymous == 0

Range(s) == {s[i] : i \in 1..Len(s)}

(* werkzeug.security: a salted one-way hash and its check *)
Digest(salt, password) == <<"digest", salt, password>>

generate_password_hash(password, salt) ==
    [method |-> "scrypt", salt |-> salt, hash |-> Digest(salt, password)]

check_password_hash(pwhash, password) ==
    Digest(pwhash.salt, password) = pwhash.hash

\* User(username=..., password=...) with the next autoincrement id
User(id, username, password) ==
    [id |-> id, username |-> username, password |-> password]

\* User.check_password
check_password(user, password) == check_password_hash(user.password, password)

\* Book(title=..., price=...) rows of the seed list, prices in cents
Book(id, title, price) == [id |-> id, title |-> title, price |-> price]

SeedBooks ==
    << [title |-> "The Great Gatsby", price |-> 1099],
       [title |-> "1984", price |-> 899],
       [title |-> "To Kill a Mockingbird", price |-> 1249],
       [title |-> "Pride and Prejudice", price |-> 699],
       [title |-> "The Catcher in the Rye", price |-> 999],
       [title |-> "Moby Dick", price |-> 1199],
       [title |-> "War and Peace", price |-> 1499],
       [title |-> "The Odyssey", price |-> 749],
       [title |-> "The Hobbit", price |-> 1399] >>

\* db.session.bulk_save_objects(books): each row gets the next free id
bulk_save_objects(table, rows) ==
    table \o [i \in 1..Len(rows) |->
                Book(Len(table) + i, rows[i].title, rows[i].price)]

(* requests and responses *)
Request(kind, username, password, book_id, address) ==
    [kind |-> kind, username |-> username, password |-> password,
     book_id |-> book_id, address |-> address]

NoRequest == Request("none", "", "", 0, "")

Response(kind, target, flash, items, total) ==
    [kind |-> kind, target |-> target, flash |-> flash,
     items |-> items, total |-> total]

NoResponse == Response("none", "", <<>>, <<>>, 0)
render_template(template, flash) == Response("render", template, flash, <<>>, 0)
redirect(endpoint, flash) == Response("redirect", endpoint, flash, <<>>, 0)
\* abort(404) of get_or_404, and the 500 of an unhandled exception
ErrorResponse(code) == Response("error", code, <<>>, <<>>, 0)

(* ------------------------------ queries -------------------------------- *)

\* User.query.filter_by(username=username).first()
UsersNamed(username) == SelectSeq(users, LAMBDA u : u.username = username)

\* load_user / current_user: the User the session's id names, if any
is_authenticated(s) == \E i \in 1..Len(users) : users[i].id = identity[s]

\* Book.query.get_or_404(book_id): whether a row has the id
BookExists(book_id) == \E i \in 1..Len(books) : books[i].id = book_id

BookById(book_id) ==
    books[CHOOSE i \in 1..Len(books) : books[i].id = book_id]

Init ==
    /\ users = <<>>
    /\ books = <<>>
    /\ identity = [s \in Sessions |-> Anonymous]
    /\ cart = [s \in Sessions |-> NoCart]
    /\ pc = [s \in Sessions |-> "idle"]
    /\ req = [s \in Sessions |-> NoRequest]
    /\ resp = [s \in Sessions |-> NoResponse]
    /\ presented = [s \in Sessions |-> 0]
    /\ dropped = [s \in Sessions |-> 0]

(* --------------------------- request intake ---------------------------- *)

CartList(s) == IF cart[s] = NoCart THEN <<>> ELSE cart[s]

\* the requests of the routes that touch only the tables and the login state
StoreRequests ==
    {Request(k, "", "", 0, "") : k \in {"index", "about", "login_form",
                                        "signup_form", "logout", "account"}}
    \cup {Request("login", u, w, 0, "") : u \in Usernames, w \in Passwords}
    \cup {Request("signup", u, "pw1", 0, "") : u \in SignupNames}

\* the requests of the checkout and cart routes
ShopRequests(s) ==
    {Request(k, "", "", 0, "") : k \in {"cart", "clear_cart"}}
    \cup {Request("checkout", "", "", b, "") : b \in ReqBookIds}
    \cup {Request("complete_checkout", "", "", b, a) :
             b \in ReqBookIds, a \in Addresses}
    \cup {Request("remove_from_cart", "", "", b, "") : b \in ReqBookIds}
    \cup {Request("add_to_cart", "", "", b, "") :
             b \in {x \in ReqBookIds : Len(CartList(s)) < MaxCart}}

\* the requests two racing clients send
RaceRequests ==
    {Request("index", "", "", 0, "")}
    \cup {Request("signup", u, "pw1", 0, "") : u \in SignupNames}

\* a request arrives; the before_request hook runs first
BeginRequest(s, r) ==
    /\ pc[s] = "idle"
    /\ pc' = [pc EXCEPT ![s] = "seed_users"]
    /\ req' = [req EXCEPT ![s] = r]
    /\ resp' = [resp EXCEPT ![s] = NoResponse]
    /\ dropped' = [dropped EXCEPT ![s] = 0]
    /\ UNCHANGED <<users, books, identity, cart, presented>>

\* the handler (or the hook) returns its response
Finish(s, r) ==
    /\ pc' = [pc EXCEPT ![s] = "idle"]
    /\ resp' = [resp EXCEPT ![s] = r]
    /\ UNCHANGED req

(* ------------------------ create_tables (seeding) ---------------------- *)

\* `if X.query.count() == 0`
TableEmpty(table) == Len(table) = 0

\* variant: the column declared without unique=True
UniqueViolationOff(username) == FALSE

\* the UNIQUE constraint of User.username, checked by the store at commit
UniqueViolation(username) == \E i \in 1..Len(users) : users[i].username = username

\* `if User.query.count() == 0:`
SeedUsersCount(s) ==
    /\ pc[s] = "seed_users"
    /\ pc' = [pc EXCEPT ![s] = IF TableEmpty(users) THEN "seed_users_commit"
                                                      ELSE "seed_books"]
    /\ UNCHANGED <<users, books, identity, cart, req, resp, presented, dropped>>

\* `db.session.add(user); db.session.commit()` of the default account; a
\* commit the UNIQUE constraint refuses raises and the request ends in a 500
SeedUsersCommit(s) ==
    /\ pc[s] = "seed_users_commit"
    /\ \E salt \in Salts :
         IF UniqueViolation("admin")
           THEN /\ Finish(s, ErrorResponse("500"))
                /\ UNCHANGED users
           ELSE /\ users' = Append(users,
                       User(Len(users) + 1, "admin",
                            generate_password_hash("admin", salt)))
                /\ pc' = [pc EXCEPT ![s] = "seed_books"]
                /\ UNCHANGED <<req, resp>>
    /\ UNCHANGED <<books, identity, cart, presented, dropped>>

\* variant: the books are saved without the emptiness test
SeedBooksCountAlways(s) ==
    /\ pc[s] = "seed_books"
    /\ pc' = [pc EXCEPT ![s] = "seed_books_commit"]
    /\ UNCHANGED <<users, books, identity, cart, req, resp, presented, dropped>>

\* `if Book.query.count() == 0:`
SeedBooksCount(s) ==
    /\ pc[s] = "seed_books"
    /\ pc' = [pc EXCEPT ![s] = IF TableEmpty(books) THEN "seed_books_commit"
                                                      ELSE "handler"]
    /\ UNCHANGED <<users, books, identity, cart, req, resp, presented, dropped>>

\* `db.session.bulk_save_objects(books); db.session.commit()`; Book has no
\* constraint besides its primary key, so the commit always succeeds
SeedBooksCommit(s) ==
    /\ pc[s] = "seed_books_commit"
    /\ books' = bulk_save_objects(books, SeedBooks)
    /\ pc' = [pc EXCEPT ![s] = "handler"]
    /\ UNCHANGED <<users, identity, cart, req, resp, presented, dropped>>

AtHandler(s, kinds) == pc[s] = "handler" /\ req[s].kind \in kinds

(* ------------------------------ handlers ------------------------------- *)

\* flashed notices are named by an English rendering of their text

\* @login_required: Flask-Login's unauthorized() flashes and redirects to
\* login_manager.login_view
Unauthorized == redirect("login", <<"message", "Please log in to access this page.">>)

\* index and about; of index the branch without a search query
\* (Book.query.all()), the title filter changing no state
Index(s) ==
    /\ AtHandler(s, {"index", "about"})
    /\ Finish(s, IF req[s].kind = "about"
                   THEN render_template("about.html", <<>>)
                   ELSE Response("render", "index.html", <<>>,
                                 [i \in 1..Len(books) |-> books[i].id], 0))
    /\ UNCHANGED <<users, books, identity, cart, presented, dropped>>

\* variant: a separate notice for an unknown username
LoginOutcomeRevealing(s, username, password) ==
    LET found == UsersNamed(username) IN
    IF found = <<>>
      THEN <<identity[s],
             render_template("login.html", <<"danger", "unknown username">>)>>
      ELSE IF check_password(found[1], password)
        THEN <<found[1].id, redirect("index", <<"success", "login succeeded">>)>>
        ELSE <<identity[s],
               render_template("login.html", <<"danger", "wrong password">>)>>

\* variant: a failed login redirects back to the login page
LoginOutcomeRedirecting(s, username, password) ==
    LET found == UsersNamed(username) IN
    IF found # <<>> /\ check_password(found[1], password)
      THEN <<found[1].id, redirect("index", <<"success", "login succeeded">>)>>
      ELSE <<identity[s],
             redirect("login", <<"danger", "wrong username or password">>)>>

\* what a login POST does: <<the session's user id afterwards, the response>>
LoginOutcome(s, username, password) ==
    LET found == UsersNamed(username) IN
    IF found # <<>> /\ check_password(found[1], password)
      THEN <<found[1].id,
             redirect("index", <<"success", "login succeeded">>)>>
      ELSE <<identity[s],
             render_template("login.html",
                 <<"danger", "wrong username or password">>)>>

Login(s) ==
    /\ AtHandler(s, {"login", "login_form"})
    /\ IF req[s].kind = "login"
         THEN LET out == LoginOutcome(s, req[s].username, req[s].password) IN
              /\ identity' = [identity EXCEPT ![s] = out[1]]
              /\ Finish(s, out[2])
         ELSE /\ Finish(s, render_template("login.html", <<>>))
              /\ UNCHANGED identity
    /\ UNCHANGED <<users, books, cart, presented, dropped>>

\* variant: the existence lookup left out
username_taken_never(username) == FALSE

\* `if User.query.filter_by(username=username).first():`
username_taken(username) == UsersNamed(username) # <<>>

\* signup up to the existence lookup
SignupLookup(s) ==
    /\ AtHandler(s, {"signup", "signup_form"})
    /\ IF req[s].kind = "signup_form"
         THEN Finish(s, render_template("signup.html", <<>>))
         ELSE IF username_taken(req[s].username)
           THEN Finish(s, redirect("signup",
                    <<"danger", "username already exists">>))
           ELSE /\ pc' = [pc EXCEPT ![s] = "signup_commit"]
                /\ UNCHANGED <<req, resp>>
    /\ UNCHANGED <<users, books, identity, cart, presented, dropped>>

\* `db.session.add(new_user); db.session.commit(); login_user(new_user)`;
\* the salt of generate_password_hash is drawn here
SignupCommit(s) ==
    /\ pc[s] = "signup_commit"
    /\ \E salt \in Salts :
         IF UniqueViolation(req[s].username)
           THEN /\ Finish(s, ErrorResponse("500"))
                /\ UNCHANGED <<users, identity>>
           ELSE /\ users' = Append(users,
                       User(Len(users) + 1, req[s].username,
                            generate_password_hash(req[s].password, salt)))
                /\ identity' = [identity EXCEPT ![s] = Len(users) + 1]
                /\ Finish(s, redirect("index",
                       <<"success", "signup succeeded">>))
    /\ UNCHANGED <<books, cart, presented, dropped>>

Logout(s) ==
    /\ AtHandler(s, {"logout"})
    /\ IF is_authenticated(s)
         THEN /\ identity' = [identity EXCEPT ![s] = Anonymous]
              /\ Finish(s, redirect("index", <<>>))
         ELSE /\ Finish(s, Unauthorized)
              /\ UNCHANGED identity
    /\ UNCHANGED <<users, books, cart, presented, dropped>>

Account(s) ==
    /\ AtHandler(s, {"account"})
    /\ Finish(s, IF is_authenticated(s)
                   THEN Response("render", "account.html", <<>>, <<identity[s]>>, 0)
                   ELSE Unauthorized)
    /\ UNCHANGED <<users, books, identity, cart, presented, dropped>>

\* checkout: present one book, or 404
Checkout(s) ==
    /\ AtHandler(s, {"checkout"})
    /\ IF BookExists(req[s].book_id)
         THEN /\ Finish(s, Response("render", "checkout.html", <<>>,
                                    <<req[s].book_id>>, 0))
              /\ presented' = [presented EXCEPT ![s] = req[s].book_id]
         ELSE /\ Finish(s, ErrorResponse("404"))
              /\ UNCHANGED presented
    /\ UNCHANGED <<users, books, identity, cart, dropped>>

\* variant: a completed purchase takes the book out of the cart
CompleteCheckoutTakingFromCart(s) ==
    /\ AtHandler(s, {"complete_checkout"})
    /\ IF BookExists(req[s].book_id)
         THEN /\ Finish(s, redirect("index",
                    <<"success", "purchase succeeded",
                      BookById(req[s].book_id).title, req[s].address>>))
              /\ cart' = [cart EXCEPT ![s] =
                            IF cart[s] = NoCart THEN NoCart
                            ELSE SelectSeq(cart[s], LAMBDA x : x # req[s].book_id)]
         ELSE /\ Finish(s, ErrorResponse("404"))
              /\ UNCHANGED cart
    /\ UNCHANGED <<users, books, identity, presented, dropped>>

\* variant: completion refused unless the book was presented first
CompleteCheckoutAfterPresenting(s) ==
    /\ AtHandler(s, {"complete_checkout"})
    /\ IF BookExists(req[s].book_id) /\ presented[s] = req[s].book_id
         THEN Finish(s, redirect("index",
                    <<"success", "purchase succeeded",
                      BookById(req[s].book_id).title, req[s].address>>))
         ELSE Finish(s, ErrorResponse("404"))
    /\ UNCHANGED <<users, books, identity, cart, presented, dropped>>

\* complete_checkout: re-fetch the book and flash the confirmation
CompleteCheckout(s) ==
    /\ AtHandler(s, {"complete_checkout"})
    /\ IF BookExists(req[s].book_id)
         THEN Finish(s, redirect("index",
                    <<"success", "purchase succeeded",
                      BookById(req[s].book_id).title, req[s].address>>))
         ELSE Finish(s, ErrorResponse("404"))
    /\ UNCHANGED <<users, books, identity, cart, presented, dropped>>

\* Book.query.filter(Book.id.in_(session['cart'])).all(): the rows whose id
\* is in the list, in table order
CartBooks(ids) == SelectSeq(books, LAMBDA b : b.id \in Range(ids))

RECURSIVE SumPrices(_)
\* sum(book.price for book in cart_books)
SumPrices(rows) ==
    IF rows = <<>> THEN 0 ELSE rows[1].price + SumPrices(Tail(rows))

Cart(s) ==
    /\ AtHandler(s, {"cart"})
    /\ Finish(s, IF is_authenticated(s)
                   THEN LET cart_books == IF cart[s] = NoCart THEN <<>>
                                          ELSE CartBooks(cart[s]) IN
                        Response("render", "cart.html", <<>>,
                                 [i \in 1..Len(cart_books) |-> cart_books[i].id],
                                 SumPrices(cart_books))
                   ELSE Unauthorized)
    /\ UNCHANGED <<users, books, identity, cart, presented, dropped>>

AddToCart(s) ==
    /\ AtHandler(s, {"add_to_cart"})
    /\ cart' = [cart EXCEPT ![s] =
                  Append(IF cart[s] = NoCart THEN <<>> ELSE cart[s],
                         req[s].book_id)]
    /\ Finish(s, redirect("index", <<"success", "book added to cart">>))
    /\ UNCHANGED <<users, books, identity, presented, dropped>>

RECURSIVE CartWithoutFirst(_, _)
\* variant: session['cart'].remove(book_id), which drops one occurrence
CartWithoutFirst(ids, book_id) ==
    IF ids = <<>> THEN <<>>
    ELSE IF Head(ids) = book_id THEN Tail(ids)
    ELSE <<Head(ids)>> \o CartWithoutFirst(Tail(ids), book_id)

\* [book for book in session['cart'] if book != book_id]
CartWithout(ids, book_id) == SelectSeq(ids, LAMBDA x : x # book_id)

RemoveFromCart(s) ==
    /\ AtHandler(s, {"remove_from_cart"})
    /\ IF cart[s] # NoCart
         THEN /\ cart' = [cart EXCEPT ![s] = CartWithout(cart[s], req[s].book_id)]
              /\ dropped' = [dropped EXCEPT ![s] = Len(cart[s]) - Len(cart'[s])]
              /\ Finish(s, redirect("cart", <<"success", "book removed from cart">>))
         ELSE /\ Finish(s, redirect("cart", <<>>))
              /\ UNCHANGED <<cart, dropped>>
    /\ UNCHANGED <<users, books, identity, presented>>

\* session.pop('cart', None)
ClearCart(s) ==
    /\ AtHandler(s, {"clear_cart"})
    /\ cart' = [cart EXCEPT ![s] = NoCart]
    /\ Finish(s, redirect("cart", <<"success", "cart cleared">>))
    /\ UNCHANGED <<users, books, identity, presented, dropped>>

(* --------------------------- specifications ---------------------------- *)

\* the session whose requests Spec follows
Browser == CHOOSE s \in Sessions : \A t \in Sessions : s <= t

\* one browser session, its requests handled one after the other
Next ==
    \/ \E r \in StoreRequests \cup ShopRequests(Browser) : BeginRequest(Browser, r)
    \/ SeedUsersCount(Browser)
    \/ SeedUsersCommit(Browser)
    \/ SeedBooksCount(Browser)
    \/ SeedBooksCommit(Browser)
    \/ Index(Browser)
    \/ Login(Browser)
    \/ SignupLookup(Browser)
    \/ SignupCommit(Browser)
    \/ Logout(Browser)
    \/ Account(Browser)
    \/ Checkout(Browser)
    \/ CompleteCheckout(Browser)
    \/ Cart(Browser)
    \/ AddToCart(Browser)
    \/ RemoveFromCart(Browser)
    \/ ClearCart(Browser)

Spec == Init /\ [][Next]_vars

\* two sessions whose requests interleave query by query
NextRace ==
    \E s \in Sessions :
        \/ \E r \in RaceRequests : BeginRequest(s, r)
        \/ SeedUsersCount(s)
        \/ SeedUsersCommit(s)
        \/ SeedBooksCount(s)
        \/ SeedBooksCommit(s)
        \/ Index(s)
        \/ SignupLookup(s)
        \/ SignupCommit(s)

SpecRace == Init /\ [][NextRace]_vars

(* ------------------------------- claims -------------------------------- *)

\* session s takes the handler step of a request of this kind
HandlerStep(s, kind) ==
    pc[s] = "handler" /\ req[s].kind = kind /\ pc'[s] # "handler"

\* session s has its answer to a request of this kind
Answered(s, kind) == pc[s] = "idle" /\ req[s].kind = kind

NameCount(username) ==
    Cardinality({i \in 1..Len(users) : users[i].username = username})

UsernamesUnique ==
    \A i, j \in 1..Len(users) :
        users[i].username = users[j].username => i = j

DuplicateNotice == redirect("signup", <<"danger", "username already exists">>)
SignupSuccess == redirect("index", <<"success", "signup succeeded">>)
LoginFailure ==
    render_template("login.html", <<"danger", "wrong username or password">>)

\* no User row has the username
Unknown(username) == NameCount(username) = 0

\* a User row has the username, and its hash was made from another password
KnownWrong(username, password) ==
    \E i \in 1..Len(users) :
        users[i].username = username /\ users[i].password.hash[3] # password

C1_DuplicateRejected ==
    \A s \in Sessions :
        HandlerStep(s, "signup") /\ NameCount(req[s].username) > 0
        => /\ resp'[s] = DuplicateNotice
           /\ pc'[s] = "idle"
           /\ users' = users /\ identity' = identity

\* C1: after any sequence of signup requests no two User rows share a
\* username, and a signup whose username exists is answered with the
\* duplicate notice and leaves the User table as it was.
C1_SignupKeepsUsernamesUnique ==
    [](UsernamesUnique) /\ [][C1_DuplicateRejected]_vars

\* a signup for an existing username was rejected; one row has the name
C1_Witness ==
    /\ Answered(Browser, "signup")
    /\ resp[Browser] = DuplicateNotice
    /\ NameCount(req[Browser].username) = 1
    /\ Len(users) = 2

Registered(s) == Answered(s, "signup") /\ resp[s] = SignupSuccess

LoggedInAs(s, username) ==
    \E i \in 1..Len(users) :
        users[i].username = username /\ identity[s] = users[i].id

C2_OneWinner ==
    /\ UsernamesUnique
    /\ \A s, t \in Sessions :
         Registered(s) /\ Registered(t) /\ req[s].username = req[t].username
         => s = t
    /\ \A u \in SignupNames :
         Cardinality({s \in Sessions : LoggedInAs(s, u)}) <= 1

C2_LateCommitRejected ==
    \A s \in Sessions :
        pc[s] = "signup_commit" /\ pc'[s] # "signup_commit"
        /\ NameCount(req[s].username) > 0
        => /\ resp'[s] = ErrorResponse("500")
           /\ users' = users /\ identity' = identity

\* C2: when two signups for one new username both pass the existence
\* lookup before either commits, the second commit is refused: one User row
\* has the name, and one request at most is registered and logged in.
C2_RacingSignupsOneWinner ==
    [](C2_OneWinner) /\ [][C2_LateCommitRejected]_vars

\* both sessions passed the lookup for one username; the first has
\* committed and is logged in, the second is about to commit
C2_Witness ==
    \E s, t \in Sessions :
        /\ s # t
        /\ Registered(s) /\ LoggedInAs(s, req[s].username)
        /\ pc[t] = "signup_commit" /\ req[t].username = req[s].username
        /\ NameCount(req[s].username) = 1

C3_SameOutcome ==
    \A u1 \in {u \in Usernames : Unknown(u)} :
    \A u2 \in Usernames : \A w2 \in {w \in Passwords : KnownWrong(u2, w)} :
    \A s \in Sessions : \A w1 \in Passwords :
        /\ LoginOutcome(s, u1, w1) = LoginOutcome(s, u2, w2)
        /\ LoginOutcome(s, u1, w1) = <<identity[s], LoginFailure>>

C3_FailedLoginStep ==
    \A s \in Sessions :
        /\ HandlerStep(s, "login")
        /\ Unknown(req[s].username)
             \/ KnownWrong(req[s].username, req[s].password)
        => /\ resp'[s] = LoginFailure
           /\ identity' = identity /\ cart' = cart
           /\ users' = users /\ books' = books

\* C3: a login with an unknown username and a login with a known username
\* and a wrong password end the same way: the same notice on the same
\* page, the session's identity and the tables as they were.
C3_FailedLoginUniform ==
    [](C3_SameOutcome) /\ [][C3_FailedLoginStep]_vars

\* a login with a known username and a wrong password has failed while
\* another username is unknown
C3_Witness ==
    /\ Answered(Browser, "login")
    /\ KnownWrong(req[Browser].username, req[Browser].password)
    /\ resp[Browser] = LoginFailure
    /\ \E u \in Usernames : Unknown(u)

RECURSIVE AllBut(_, _)
\* the list with every occurrence of the id deleted, the rest in order
AllBut(ids, book_id) ==
    IF ids = <<>> THEN <<>>
    ELSE (IF ids[1] = book_id THEN <<>> ELSE <<ids[1]>>)
         \o AllBut(Tail(ids), book_id)

C4_RemoveStep ==
    \A s \in Sessions :
        HandlerStep(s, "remove_from_cart")
        => (IF cart'[s] = NoCart THEN <<>> ELSE cart'[s])
             = AllBut(CartList(s), req[s].book_id)

\* C4: remove(b) leaves the cart as it was with every occurrence of b
\* deleted and the other entries in their order.
C4_RemoveDeletesAllOccurrences == [][C4_RemoveStep]_vars

\* add(b); add(b); remove(b): both entries dropped, the cart is empty
C4_Witness ==
    /\ Answered(Browser, "remove_from_cart")
    /\ dropped[Browser] = 2
    /\ cart[Browser] = <<>>

PriceOf(book_id) ==
    books[CHOOSE i \in 1..Len(books) : books[i].id = book_id].price

\* the cart entries whose id a Book has
Resolvable(ids) ==
    SelectSeq(ids, LAMBDA x : \E i \in 1..Len(books) : books[i].id = x)

RECURSIVE EntryTotal(_)
EntryTotal(ids) ==
    IF ids = <<>> THEN 0 ELSE PriceOf(ids[1]) + EntryTotal(Tail(ids))

\* C5: the cart page lists one Book per cart entry whose id exists (a book
\* added twice is listed twice), omits the others, and totals the listed prices.
C5_ResolvePerEntry ==
    \A s \in Sessions :
        Answered(s, "cart") /\ resp[s].target = "cart.html"
        => /\ Len(resp[s].items) = Len(Resolvable(CartList(s)))
           /\ resp[s].total = EntryTotal(Resolvable(CartList(s)))

C6_Seeded ==
    \A s \in Sessions :
        pc[s] \in {"handler", "signup_commit"} \/ (pc[s] = "idle" /\ req[s] # NoRequest)
        => /\ Len(books) = Len(SeedBooks)
           /\ \A i \in 1..Len(books) :
                books[i] = [id |-> i, title |-> SeedBooks[i].title,
                            price |-> SeedBooks[i].price]
           /\ NameCount("admin") = 1
           /\ users[1].username = "admin"

C6_TablesStep ==
    /\ books # <<>> => books' = books
    /\ users' # users =>
         IF users = <<>>
           THEN Len(users') = 1 /\ users'[1].username = "admin"
           ELSE \E s \in Sessions :
                  /\ pc[s] = "signup_commit"
                  /\ Len(users') = Len(users) + 1
                  /\ SubSeq(users', 1, Len(users)) = users
                  /\ users'[Len(users')].username = req[s].username

\* C6: with requests handled one after the other, once a request is past
\* the seeding hook the Book table is the seed list, once, and the User
\* table is the default account plus the signed-up users; a hook that
\* finds rows changes nothing.
C6_SeedingIdempotent == [](C6_Seeded) /\ [][C6_TablesStep]_vars

\* several requests were served; the tables hold the seed and one signup
C6_Witness ==
    /\ pc[Browser] = "idle"
    /\ presented[Browser] # 0
    /\ Len(users) = 2
    /\ Len(books) = Len(SeedBooks)

NotFoundCase(s) ==
    /\ Answered(s, "checkout") \/ Answered(s, "complete_checkout")
    /\ \A i \in 1..Len(books) : books[i].id # req[s].book_id

InvalidCredentialsCase(s) ==
    /\ Answered(s, "login")
    /\ Unknown(req[s].username)
         \/ KnownWrong(req[s].username, req[s].password)

DuplicateUsernameCase(s) == Answered(s, "signup") /\ resp[s] # SignupSuccess

C8_Outcome(book_id, address) ==
    IF book_id \in 1..Len(SeedBooks)
      THEN redirect("index", <<"success", "purchase succeeded",
                               SeedBooks[book_id].title, address>>)
      ELSE ErrorResponse("404")

C8_CompleteStep ==
    \A s \in Sessions :
        HandlerStep(s, "complete_checkout")
        => /\ users' = users /\ books' = books
           /\ cart' = cart /\ identity' = identity
           /\ resp'[s] = C8_Outcome(req[s].book_id, req[s].address)

\* C8: complete_checkout leaves both tables, the cart and the session's
\* identity as they were, and its answer is decided by the book id (and
\* the address echoed), whatever the cart holds.
C8_CompleteCheckoutChangesNothing == [][C8_CompleteStep]_vars

\* a purchase of a book that is in the cart, by a logged-in session
C8_Witness ==
    /\ Answered(Browser, "complete_checkout")
    /\ resp[Browser].kind = "redirect"
    /\ req[Browser].book_id \in Range(CartList(Browser))
    /\ identity[Browser] # Anonymous

Completed(s) == Answered(s, "complete_checkout") /\ resp[s].kind = "redirect"

C10_NoDuplicateSeed == Len(books) <= Len(SeedBooks)

====
